---- MODULE Spec2Model ----
(***************************************************************************)
(* Model of the remote-shell gateway, cmd/shell/serve.go: func Serve.       *)
(*                                                                         *)
(* One goroutine runs Serve (variable pc), one goroutine watches for the   *)
(* termination signal (variable watcher), and net/http runs one goroutine  *)
(* per accepted connection (variable conns).  External collaborators       *)
(* (noisysockets network, net/http server, gorilla upgrader, rs/cors,      *)
(* shell handler) are modelled at the calls Serve makes on them; their     *)
(* outcomes are environment choices.                                       *)
(***************************************************************************)
EXTENDS Integers, Sequences, FiniteSets, TLC

\* Number of connections the server accepts in one run.
MaxConns == 2

\* net.Listen("tcp", ":80"): the port the listener is bound to.
ListenPort == 80

\* Addresses the virtual network may report for the bound listener.
Addrs == {"100.64.0.1", "fd00::1"}

\* Values net.Hostname() may return without an error; a configured hostname
\* may hold upper-case letters.
Hostnames == {"", "router.example", "Router.Example"}

\* The (bound address, hostname) pairs the model runs Serve in: the IPv4
\* address without a hostname and with a lower-case one, and the IPv6
\* address with a hostname holding upper-case letters.
Environments ==
    {<<"100.64.0.1", "">>, <<"100.64.0.1", "router.example">>,
     <<"fd00::1", "Router.Example">>}

\* Origin header values of incoming requests; "" is an absent header
\* (http.Header.Get returns "" for a missing key).  A client may write the
\* scheme and the host in any letter case.
OriginInputs ==
    {"", "http://100.64.0.1", "http://router.example:80", "http://evil.example",
     "HTTP://100.64.0.1"}

Paths == {"/shell/ws", "/"}

\* Request methods.
Methods == {"GET", "POST", "PUT", "OPTIONS"}

\* What the upgrade headers of a request look like: "ok" is a complete
\* WebSocket handshake, "noUpgrade" lacks the Connection/Upgrade tokens,
\* "badVersion" lacks Sec-WebSocket-Version: 13, "noKey" lacks a valid
\* Sec-WebSocket-Key.
Handshakes == {"ok", "noUpgrade", "badVersion", "noKey"}

\* What the connection does when upgrader.Upgrade takes it over: "ok",
\* "hijackErr" (Hijack returns an error), "netErr" (the peer sent data before
\* the handshake was complete, or the 101 response cannot be written).
IOs == {"ok", "hijackErr", "netErr"}

\* The middleware list handed to middleware.Chain (serve.go:109-114), the
\* first listed being the outermost wrapper.
Middlewares == <<"Recover", "FrameOptions", "ContentSecurityPolicy", "CORS">>

\* Places inside the middleware chain in which request handling may panic:
\* the router, and the routed handler before it has written anything
\* ("handler") or after it has written its response ("handlerWrote").
\* (A panic out of h.Wait is an outcome of WaitEnds.)
PanicLayers == {"mux", "handler", "handlerWrote"}

\* A request: its path, method, Origin header, Access-Control-Request-Method
\* and Access-Control-Request-Headers headers ("" when absent), upgrade
\* headers, and the layer in which handling it panics ("none": no panic).
Req(p, m, o, a, hd, h, x) ==
    [path |-> p, method |-> m, origin |-> o, acrm |-> a, acrh |-> hd,
     hs |-> h, panicAt |-> x]

\* The requests the model sends: complete handshakes from several origins,
\* an incomplete handshake and one with the wrong method, a plain request,
\* preflight requests, and requests whose handler panics before or after it
\* has written.
Requests ==
    {Req("/shell/ws", "GET", o, "", "", "ok", "none") :
        o \in {"", "http://router.example:80", "http://evil.example"}}
    \cup {Req("/shell/ws", "GET", "http://evil.example", "", "", "noUpgrade",
              "none")}
    \cup {Req("/shell/ws", "POST", "http://100.64.0.1", "", "", "ok", "none")}
    \cup {Req("/", "GET", "http://evil.example", "", "", "noUpgrade", "none")}
    \cup {Req("/", "OPTIONS", "http://100.64.0.1", "GET", hd, "noUpgrade",
              "none") : hd \in {"content-type", "authorization"}}
    \cup {Req("/", "GET", "", "", "", "noUpgrade", "handlerWrote")}
    \cup {Req("/shell/ws", "GET", "", "", "", "noUpgrade", "handler")}

ConnIds == 1..MaxConns

VARIABLES
    pc,             \* position of the goroutine running Serve; "serving":
                    \* inside srv.Serve, "acceptFailed": inside srv.Serve
                    \* after a fatal Accept error, "served": srv.Serve has
                    \* returned
    calls,          \* outcome of each external call Serve made
    netState,       \* virtual network: "none" | "open" | "closed"
    lisState,       \* listener: "none" | "open" | "closed"
    lisAddr,        \* address the listener is bound to ("" before the bind)
    hostname,       \* value returned by net.Hostname()
    allowedOrigins, \* the allowedOrigins slice
    defers,         \* Serve's stack of deferred calls
    result,         \* Serve's return value: "none" | "nil" | "err"
    errMsg,         \* prefix of the wrapped error Serve returns
    sig,            \* number of signals buffered in the sig channel (cap 1)
    ctxDone,        \* the ctx argument of Serve (serve.go:34), handed to
                    \* every shell.NewHandler (serve.go:94), is cancelled.
                    \* Serve derives no context from it and never cancels
                    \* it; what its caller does with it is outside Serve.
    watcher,        \* signal goroutine: "none" | "blocked" | "closing" |
                    \* "waiting" (inside srv.Close) | "done"
    srv,            \* http.Server: "new" | "serving" | "closed"
    conns           \* per-connection handler goroutine

vars == <<pc, calls, netState, lisState, lisAddr, hostname, allowedOrigins,
          defers, result, errMsg, sig, ctxDone, watcher,
          srv, conns>>

gatewayVars == <<pc, calls, netState, lisState, lisAddr, hostname,
                 allowedOrigins, defers, result, errMsg>>

signalVars == <<sig>>

----------------------------------------------------------------------------
(* Pure helpers *)

Range(s) == {s[i] : i \in DOMAIN s}

IsIPv6(a) == a = "fd00::1"

\* netip.Addr.String()
AddrString(a) == a

\* netip.AddrPort.String(): "ip:port", with the address in brackets for IPv6.
AddrPortString(a, p) ==
    IF IsIPv6(a) THEN "[" \o a \o "]:" \o ToString(p)
                 ELSE a \o ":" \o ToString(p)

\* serve.go:53-56
AddrOrigins(a, p) ==
    << "http://" \o AddrString(a), "http://" \o AddrPortString(a, p) >>

\* Mutant: the port-qualified hostname origin is left out.
HostOrigins_NoPort(h, p) ==
    IF h # "" THEN << "http://" \o h >> ELSE << >>

\* serve.go:64-68
HostOrigins(h, p) ==
    IF h # "" THEN << "http://" \o h, "http://" \o h \o ":" \o ToString(p) >>
              ELSE << >>

\* strings.ToLower, on the strings of this model: the origins built from
\* Hostnames and the values of OriginInputs.  Every other string of the model
\* has no upper-case letter.
ToLower(s) ==
    IF s = "http://Router.Example" THEN "http://router.example"
    ELSE IF s = "http://Router.Example:80" THEN "http://router.example:80"
    ELSE IF s = "HTTP://100.64.0.1" THEN "http://100.64.0.1"
    ELSE s

\* Mutant: every origin is allowed (as with AllowedOrigins: ["*"]).
OriginAllowed_Any(origin) == TRUE

\* rs/cors Cors.OriginAllowed(r), installed as the upgrader's CheckOrigin
\* (serve.go:74-76): reads the Origin header (empty when absent), lower-cases
\* it and looks it up in the configured list, whose entries cors.New
\* (serve.go:70-72) lower-cased.  The list is never empty and none of its
\* entries holds a "*", so neither the allow-all nor the wildcard branch of
\* rs/cors is taken.
OriginAllowed(origin) ==
    ToLower(origin) \in {ToLower(o) : o \in Range(allowedOrigins)}

\* rs/cors isMethodAllowed with the default AllowedMethods (serve.go:70-72
\* sets none): OPTIONS always, else GET, POST or HEAD.
MethodAllowed(m) == m = "OPTIONS" \/ m \in {"GET", "POST", "HEAD"}

\* cors.Handler (serve.go:113) treats an OPTIONS request that carries
\* Access-Control-Request-Method as a preflight request.
IsPreflight(r) == r.method = "OPTIONS" /\ r.acrm # ""

\* cors.Handler, handleActualRequest: the Access-Control-Allow-Origin header
\* is added when the Origin is present and allowed and the method is allowed.
CorsAddsHeader(r) ==
    r.origin # "" /\ OriginAllowed(r.origin) /\ MethodAllowed(r.method)

\* rs/cors areHeadersAllowed with the default AllowedHeaders (serve.go:70-72
\* sets none): no requested header, or one of the default list.
HeadersAllowed(hd) ==
    hd = "" \/ hd \in {"accept", "content-type", "x-requested-with"}

\* cors.Handler, handlePreflight: the allow headers are added when the Origin
\* is present and allowed, the requested method is allowed and the requested
\* headers are allowed.
PreflightHeaders(r) ==
    IF /\ r.origin # "" /\ OriginAllowed(r.origin)
       /\ MethodAllowed(r.acrm) /\ HeadersAllowed(r.acrh)
    THEN {"Access-Control-Allow-Origin", "Access-Control-Allow-Methods"}
    ELSE {}

\* cors.Handler answers a preflight request itself (OptionsPassthrough is
\* not set) and calls the next handler for every other request.
CorsCallsNext(r) == ~IsPreflight(r)

----------------------------------------------------------------------------
(* Initial state: Serve has just been called. *)

FreeConn ==
    [pc |-> "free", path |-> "", method |-> "", origin |-> "", acrm |-> "",
     acrh |-> "",
     hs |-> "", panicAt |-> "none",
     ws |-> "none",      \* upgraded stream: "none" | "open" | "cut" (closed
                         \* under the handler) | "closed" (by h.Close)
     cut |-> FALSE,      \* the accepted connection was closed under its
                         \* goroutine before the handler chain returned
     upgradeErr |-> "none",
     h |-> "none", closes |-> 0, deferred |-> << >>,
     outcome |-> "none",
     hdrs |-> {},        \* header names set on the ResponseWriter
     status |-> "none",  \* status line of the response that was written
     sent |-> {},        \* header names sent with that response
     panic |-> "none"]   \* "none" | "propagating" | "recovered" | "escaped"

Init ==
    /\ pc = "start"
    /\ calls = [open |-> "none", listen |-> "none", host |-> "none",
                serve |-> "none"]
    /\ netState = "none"
    /\ lisState = "none"
    /\ lisAddr = ""
    /\ hostname = ""
    /\ allowedOrigins = << >>
    /\ defers = << >>
    /\ result = "none"
    /\ errMsg = ""
    /\ sig = 0
    /\ ctxDone = FALSE
    /\ watcher = "none"
    /\ srv = "new"
    /\ conns = [c \in ConnIds |-> FreeConn]

----------------------------------------------------------------------------
(* Returning from Serve: the deferred calls run in LIFO order (serve.go:41, *)
(* serve.go:49) before the caller sees the result.                          *)

\* lis.Close()
LisAfterDefers(d) == IF "lis.Close" \in Range(d) THEN "closed" ELSE lisState

\* net.Close(): tears the virtual network down.
NetAfterDefers(d) == IF "net.Close" \in Range(d) THEN "closed" ELSE netState

\* Every accepted connection and every upgraded stream is a connection
\* inside the virtual network, so closing the network cuts those that are
\* still open.
ConnsAfterDefers(d) ==
    IF "net.Close" \in Range(d)
    THEN [c \in ConnIds |->
            IF conns[c].pc = "accepted" THEN [conns[c] EXCEPT !.cut = TRUE]
            ELSE IF conns[c].ws = "open" THEN [conns[c] EXCEPT !.ws = "cut"]
            ELSE conns[c]]
    ELSE conns

Return(res, msg) ==
    /\ pc' = "returned"
    /\ result' = res
    /\ errMsg' = msg
    /\ lisState' = LisAfterDefers(defers)
    /\ netState' = NetAfterDefers(defers)
    /\ conns' = ConnsAfterDefers(defers)
    /\ defers' = << >>

----------------------------------------------------------------------------
(* The goroutine running Serve *)

\* serve.go:37-41
OpenNetwork ==
    /\ pc = "start"
    /\ \/ /\ calls' = [calls EXCEPT !.open = "ok"]
          /\ netState' = "open"
          /\ defers' = Append(defers, "net.Close")
          /\ pc' = "listen"
          /\ UNCHANGED <<lisState, result, errMsg, conns>>
       \/ /\ calls' = [calls EXCEPT !.open = "err"]
          /\ Return("err", "failed to open WireGuard network")
    /\ UNCHANGED <<lisAddr, hostname, allowedOrigins, signalVars, ctxDone,
                   watcher, srv>>

\* Mutant: the listener's Close is not deferred.
Listen_NoDefer ==
    /\ pc = "listen"
    /\ \/ /\ \E a \in Addrs :
                /\ lisAddr' = a
                /\ allowedOrigins' = AddrOrigins(a, ListenPort)
          /\ calls' = [calls EXCEPT !.listen = "ok"]
          /\ lisState' = "open"
          /\ pc' = "hostname"
          /\ UNCHANGED <<netState, defers, result, errMsg, conns>>
       \/ /\ calls' = [calls EXCEPT !.listen = "err"]
          /\ Return("err", "failed to listen")
          /\ UNCHANGED <<lisAddr, allowedOrigins>>
    /\ UNCHANGED <<hostname, signalVars, ctxDone, watcher, srv>>

\* serve.go:45-56
Listen ==
    /\ pc = "listen"
    /\ \/ /\ \E a \in Addrs :
                /\ lisAddr' = a
                /\ allowedOrigins' = AddrOrigins(a, ListenPort)
          /\ calls' = [calls EXCEPT !.listen = "ok"]
          /\ lisState' = "open"
          /\ defers' = Append(defers, "lis.Close")
          /\ pc' = "hostname"
          /\ UNCHANGED <<netState, result, errMsg, conns>>
       \/ /\ calls' = [calls EXCEPT !.listen = "err"]
          /\ Return("err", "failed to listen")
          /\ UNCHANGED <<lisAddr, allowedOrigins>>
    /\ UNCHANGED <<hostname, signalVars, ctxDone, watcher, srv>>

\* Mutant: a failed hostname lookup is tolerated and treated as "no hostname".
Hostname_Tolerant ==
    /\ pc = "hostname"
    /\ \/ /\ \E h \in Hostnames :
                /\ <<lisAddr, h>> \in Environments
                /\ hostname' = h
                /\ allowedOrigins' = allowedOrigins \o HostOrigins(h, ListenPort)
          /\ calls' = [calls EXCEPT !.host = "ok"]
       \/ /\ calls' = [calls EXCEPT !.host = "err"]
          /\ UNCHANGED <<hostname, allowedOrigins>>
    /\ pc' = "notify"
    /\ UNCHANGED <<netState, lisState, defers, result, errMsg, conns>>
    /\ UNCHANGED <<lisAddr, signalVars, ctxDone, watcher, srv>>

\* serve.go:59-118: hostname lookup, the rest of the origin list, and the
\* construction of the cors handler, upgrader, mux and http.Server.
Hostname ==
    /\ pc = "hostname"
    /\ \/ /\ \E h \in Hostnames :
                /\ <<lisAddr, h>> \in Environments
                /\ hostname' = h
                /\ allowedOrigins' = allowedOrigins \o HostOrigins(h, ListenPort)
          /\ calls' = [calls EXCEPT !.host = "ok"]
          /\ pc' = "notify"
          /\ UNCHANGED <<netState, lisState, defers, result, errMsg, conns>>
       \/ /\ calls' = [calls EXCEPT !.host = "err"]
          /\ Return("err", "failed to get hostname")
          /\ UNCHANGED <<hostname, allowedOrigins>>
    /\ UNCHANGED <<lisAddr, signalVars, ctxDone, watcher, srv>>

\* serve.go:121-130: signal.Notify and the start of the watcher goroutine.
RegisterWatcher ==
    /\ pc = "notify"
    /\ watcher' = "blocked"
    /\ pc' = "preServe"
    /\ UNCHANGED <<calls, netState, lisState, lisAddr, hostname,
                   allowedOrigins, defers, result, errMsg, signalVars,
                   ctxDone, srv, conns>>

\* Mutant: the errors.Is(err, http.ErrServerClosed) test is missing.
ServeResult_AnyError(e) ==
    IF e # "nil" THEN <<"err", "failed to serve">> ELSE <<"nil", "">>

\* serve.go:140-144: what Serve returns for the error srv.Serve ended with.
ServeResult(e) ==
    IF e # "nil" /\ e # "sentinel" THEN <<"err", "failed to serve">>
                                   ELSE <<"nil", "">>

\* Mutant: srv.Serve starts the accept loop although the server was closed.
StartServe_IgnoreClosed ==
    /\ pc = "preServe"
    /\ srv' = "serving"
    /\ pc' = "serving"
    /\ UNCHANGED <<calls, netState, lisState, defers, result, errMsg, conns>>
    /\ UNCHANGED <<lisAddr, hostname, allowedOrigins, signalVars, ctxDone,
                   watcher>>

\* serve.go:132-140: the call of srv.Serve(lis).  A server that was already
\* closed makes it return http.ErrServerClosed at once; like every return of
\* srv.Serve it closes the listener it was given.
StartServe ==
    /\ pc = "preServe"
    /\ IF srv = "closed"
       THEN /\ calls' = [calls EXCEPT !.serve = "sentinel"]
            /\ pc' = "served"
            /\ lisState' = "closed"
            /\ UNCHANGED srv
       ELSE /\ srv' = "serving"
            /\ pc' = "serving"
            /\ UNCHANGED <<calls, lisState>>
    /\ UNCHANGED <<netState, defers, result, errMsg, conns>>
    /\ UNCHANGED <<lisAddr, hostname, allowedOrigins, signalVars, ctxDone,
                   watcher>>

\* serve.go:140: inside srv.Serve, Accept fails with an error that is not
\* temporary while the server is not marked closed: the loop has decided to
\* return that error, and has not returned yet.  srv.Close() may still mark
\* the server closed before the loop returns.
AcceptFails ==
    /\ pc = "serving"
    /\ srv = "serving"
    /\ pc' = "acceptFailed"
    /\ UNCHANGED <<calls, netState, lisState, defers, result, errMsg, conns>>
    /\ UNCHANGED <<lisAddr, hostname, allowedOrigins, signalVars, ctxDone,
                   watcher, srv>>

\* serve.go:140: srv.Serve returns to Serve: http.ErrServerClosed when
\* Accept failed on a server marked closed, the listener's error when Accept
\* failed before that.  On its way out it closes the listener and leaves the
\* group srv.Close() waits for.
ServeReturns(e) ==
    /\ \/ e = "sentinel" /\ pc = "serving" /\ srv = "closed"
       \/ e = "fatal" /\ pc = "acceptFailed"
    /\ calls' = [calls EXCEPT !.serve = e]
    /\ pc' = "served"
    /\ lisState' = "closed"
    /\ UNCHANGED <<netState, defers, result, errMsg, conns>>
    /\ UNCHANGED <<lisAddr, hostname, allowedOrigins, signalVars, ctxDone,
                   watcher, srv>>

\* serve.go:140-144: Serve returns what srv.Serve ended with, a wrapped
\* error unless it is the server-closed sentinel, and its deferred calls run.
ServeExit ==
    /\ pc = "served"
    /\ Return(ServeResult(calls.serve)[1], ServeResult(calls.serve)[2])
    /\ UNCHANGED <<calls, lisAddr, hostname, allowedOrigins, signalVars,
                   ctxDone, watcher, srv>>

----------------------------------------------------------------------------
(* The signal watcher, serve.go:121-130 *)

\* The OS delivers SIGINT or SIGTERM; signal.Notify relays it into the
\* channel of capacity 1 without blocking (a signal is dropped when full).
\* The registration is never undone, so signals keep arriving in the channel
\* after the watcher has taken one.
SignalArrives ==
    /\ watcher # "none"
    /\ sig' = 1
    /\ UNCHANGED <<gatewayVars, ctxDone, watcher, srv, conns>>

\* serve.go:125: <-sig
WatcherReceive ==
    /\ watcher = "blocked"
    /\ sig = 1
    /\ sig' = 0
    /\ watcher' = "closing"
    /\ UNCHANGED <<gatewayVars, ctxDone, srv, conns>>

\* serve.go:127: the first half of srv.Close(): it marks the server closed
\* and closes the listeners the running srv.Serve call tracks; then it waits
\* for that call to return.
WatcherClose ==
    /\ watcher = "closing"
    /\ srv' = "closed"
    /\ lisState' = IF pc \in {"serving", "acceptFailed"} THEN "closed"
                                                        ELSE lisState
    /\ watcher' = "waiting"
    /\ UNCHANGED <<pc, calls, netState, lisAddr, hostname, allowedOrigins,
                   defers, result, errMsg, signalVars, ctxDone, conns>>

\* serve.go:127-130: the second half of srv.Close(), once no srv.Serve call
\* is running (none was started, or it has returned to Serve, which may not
\* have returned yet itself): it closes every connection the server still
\* owns, leaving hijacked (upgraded) connections alone, and the watcher
\* goroutine ends.
WatcherCloseConns ==
    /\ watcher = "waiting"
    /\ pc \notin {"serving", "acceptFailed"}
    /\ conns' = [c \in ConnIds |->
                    IF conns[c].pc = "accepted"
                    THEN [conns[c] EXCEPT !.cut = TRUE] ELSE conns[c]]
    /\ watcher' = "done"
    /\ UNCHANGED <<gatewayVars, signalVars, ctxDone, srv>>

----------------------------------------------------------------------------
(* Connection handlers, serve.go:83-107 *)

\* upgrader.Upgrade (serve.go:88), in the order of its checks: the
\* Connection and Upgrade tokens, the method, the version, CheckOrigin, the
\* key, then Hijack and the write of the 101 response.  "none" means the
\* connection was hijacked and upgraded.
UpgradeErr(r, io) ==
    IF r.hs = "noUpgrade" THEN "badHandshake"
    ELSE IF r.method # "GET" THEN "method"
    ELSE IF r.hs = "badVersion" THEN "badHandshake"
    ELSE IF ~OriginAllowed(r.origin) THEN "origin"
    ELSE IF r.hs = "noKey" THEN "badHandshake"
    ELSE IF io = "hijackErr" THEN "hijack"
    ELSE IF io = "netErr" THEN "write"
    ELSE "none"

\* The status of the error reply Upgrade writes through the ResponseWriter.
\* A failed Hijack of net/http's ResponseWriter leaves the connection marked
\* hijacked, so the 500 Upgrade asks for is dropped by the writer and nothing
\* is sent; once the connection is hijacked Upgrade replies nothing and
\* closes it.
UpgradeStatus(e) ==
    IF e = "badHandshake" THEN "400"
    ELSE IF e = "method" THEN "405"
    ELSE IF e = "origin" THEN "403"
    ELSE "none"

\* Mutant: h.Close() is called at the end of the handler instead of being
\* deferred, so a panic out of Wait skips it.
ExitHandler_NoDefer(rec, how) ==
    LET n == IF how = "panic" THEN 0
             ELSE Cardinality({i \in DOMAIN rec.deferred :
                                 rec.deferred[i] = "h.Close"})
    IN [rec EXCEPT !.pc = "done",
                   !.outcome = how,
                   !.closes = @ + n,
                   !.ws = IF n > 0 THEN "closed" ELSE @,
                   !.deferred = << >>]

\* The deferred h.Close() (serve.go:99) runs when the handler function exits,
\* by return or by panic; it releases the stream and the shell process.
ExitHandler(rec, how) ==
    LET n == Cardinality({i \in DOMAIN rec.deferred : rec.deferred[i] = "h.Close"})
    IN [rec EXCEPT !.pc = "done",
                   !.outcome = how,
                   !.closes = @ + n,
                   !.ws = IF n > 0 THEN "closed" ELSE @,
                   !.deferred = << >>]

\* The record of a request when handling starts.
Base(r) ==
    [FreeConn EXCEPT !.path = r.path, !.method = r.method,
                     !.origin = r.origin, !.acrm = r.acrm,
                     !.acrh = r.acrh, !.hs = r.hs,
                     !.panicAt = r.panicAt]

\* Handling panics in a layer while the ResponseWriter holds headers w and
\* nothing has been written: the panic starts to unwind the handler chain.
Panicked(r, w) ==
    [ExitHandler(Base(r), "panic") EXCEPT !.hdrs = w, !.panic = "propagating"]

\* A response written through the ResponseWriter carries the headers that
\* were set on it.
Respond(rec, code, w) ==
    [rec EXCEPT !.status = code, !.hdrs = w, !.sent = w]

\* The handler panics after it has written its response.
PanickedAfter(rec) ==
    [ExitHandler(rec, "panic") EXCEPT !.panic = "propagating"]

\* ResponseWriter.WriteHeader of net/http, the writer that http.Server
\* (serve.go:116-118) hands to the chain: the call changes nothing once a
\* status line was written or the connection was hijacked.
WriteHeader(rec, code) ==
    IF rec.status # "none" \/ rec.ws # "none" THEN rec
    ELSE [rec EXCEPT !.status = code, !.sent = rec.hdrs]

\* The /shell/ws handler up to the return of upgrader.Upgrade
\* (serve.go:84-92).  A failed Upgrade has replied with an HTTP error through
\* the ResponseWriter, or, from the call of Hijack on, has ended without a
\* reply; a successful one has hijacked the connection and written
\* the 101 response itself, from the responseHeader argument (nil) alone.
ShellWS(r, io, w) ==
    LET e == UpgradeErr(r, io)
        base == [Base(r) EXCEPT !.upgradeErr = e, !.hdrs = w]
    IN IF r.panicAt = "handler" THEN Panicked(r, w)
       ELSE IF e = "none"
       THEN [base EXCEPT !.pc = "upgraded", !.ws = "open", !.status = "101",
                         !.sent = {}]
       ELSE IF UpgradeStatus(e) = "none"
       THEN ExitHandler(base, "upgradeFailed")
       ELSE ExitHandler(Respond(base, UpgradeStatus(e), w), "upgradeFailed")

\* web.Handler(): the static asset tree (serve.go:80-81), an opaque content
\* handler that answers a request for an asset with the asset.
Static(r, w) ==
    IF r.panicAt = "handler" THEN Panicked(r, w)
    ELSE IF r.panicAt = "handlerWrote"
    THEN PanickedAfter(Respond(Base(r), "200", w))
    ELSE ExitHandler(Respond(Base(r), "200", w), "static")

\* mux (serve.go:78-83)
Route(r, io, w) ==
    IF r.panicAt = "mux" THEN Panicked(r, w)
    ELSE IF r.path = "/shell/ws" THEN ShellWS(r, io, w)
    ELSE Static(r, w)

\* cors.Handler on a preflight request: it sets its headers, replies 204 and
\* does not call the next handler.
Preflight(r, w) ==
    ExitHandler(Respond(Base(r), "204", w \cup PreflightHeaders(r)), "preflight")

\* middleware.Recover: a panic unwinding through it is caught, logged and
\* answered with a 500 response written to the ResponseWriter.
RecoverWrap(rec) ==
    IF rec.panic # "propagating" THEN rec
    ELSE WriteHeader([rec EXCEPT !.panic = "recovered"], "500")

\* The headers a middleware sets on the ResponseWriter before it calls the
\* next layer: middleware.FrameOptions(FrameOptionDeny) and
\* middleware.ContentSecurityPolicy set theirs on every request, and
\* cors.Handler adds Access-Control-Allow-Origin for an allowed origin.
LayerHeaders(m, r) ==
    IF m = "FrameOptions" THEN {"X-Frame-Options"}
    ELSE IF m = "ContentSecurityPolicy" THEN {"Content-Security-Policy"}
    ELSE IF m = "CORS" /\ CorsAddsHeader(r)
    THEN {"Access-Control-Allow-Origin"}
    ELSE {}

\* middleware.Chain(middlewares...)(mux) (serve.go:116-118): the request
\* enters layer i of the list with headers w set on the ResponseWriter.
RECURSIVE ChainFrom(_, _, _, _)
ChainFrom(i, r, io, w) ==
    IF i > Len(Middlewares) THEN Route(r, io, w)
    ELSE LET m == Middlewares[i]
         IN IF m = "Recover" THEN RecoverWrap(ChainFrom(i + 1, r, io, w))
            ELSE IF m = "CORS" /\ ~CorsCallsNext(r) THEN Preflight(r, w)
            ELSE ChainFrom(i + 1, r, io, w \cup LayerHeaders(m, r))

\* net/http runs the handler on the connection's goroutine and recovers a
\* panic that leaves the handler chain: it logs it and drops the connection.
ConnServe(rec) ==
    IF rec.panic = "propagating" THEN [rec EXCEPT !.panic = "escaped"] ELSE rec

\* A panic out of h.Wait unwinds through every layer of the chain.
Unwind(rec) ==
    IF "Recover" \in Range(Middlewares) THEN RecoverWrap(rec) ELSE rec

\* Mutant: the handler runs on the accept loop, so nothing is accepted while
\* a session is blocked in Wait.
Accept_Serial(c) ==
    /\ pc = "serving"
    /\ srv = "serving"
    /\ lisState = "open"
    /\ conns[c].pc = "free"
    /\ \A d \in ConnIds : d < c => conns[d].pc # "free"
    /\ \A d \in ConnIds : conns[d].pc # "wait"
    /\ conns' = [conns EXCEPT ![c].pc = "accepted"]
    /\ UNCHANGED <<gatewayVars, signalVars, ctxDone, watcher, srv>>

\* srv.Serve (serve.go:140): the accept loop takes a connection from the
\* listener and starts a goroutine for it; the request is not read yet.
Accept(c) ==
    /\ pc = "serving"
    /\ srv = "serving"
    /\ lisState = "open"
    /\ conns[c].pc = "free"
    /\ \A d \in ConnIds : d < c => conns[d].pc # "free"
    /\ conns' = [conns EXCEPT ![c].pc = "accepted"]
    /\ UNCHANGED <<gatewayVars, signalVars, ctxDone, watcher, srv>>

\* The connection's goroutine finds the connection closed (by srv.Close() or
\* with the network): the request is never answered.  Either no request was
\* read and no handler ran, or a handler that does not reach Hijack wrote
\* its reply to the closed connection, which changes nothing.
ConnClosed(c) ==
    /\ conns[c].pc = "accepted"
    /\ conns[c].cut
    /\ conns' = [conns EXCEPT ![c] = [FreeConn EXCEPT !.pc = "done",
                                                      !.outcome = "dropped"]]
    /\ UNCHANGED <<gatewayVars, signalVars, ctxDone, watcher, srv>>

\* Request r gets as far as Hijack in upgrader.Upgrade.
ReachesHijack(r) ==
    r.path = "/shell/ws" /\ r.panicAt = "none" /\ UpgradeErr(r, "ok") = "none"

\* The connection's goroutine reads request r and runs the handler chain
\* (serve.go:109-118) up to the return of upgrader.Upgrade.  On a connection
\* that was closed after the request was read, Upgrade still hijacks it and
\* then fails to write the 101 response.
ServeHTTP(c, r, io) ==
    /\ conns[c].pc = "accepted"
    /\ conns[c].cut => (ReachesHijack(r) /\ io = "netErr")
    /\ conns' = [conns EXCEPT ![c] = ConnServe(ChainFrom(1, r, io, {}))]
    /\ UNCHANGED <<gatewayVars, signalVars, ctxDone, watcher, srv>>

\* shell.NewHandler(ctx, logger, ws) and the statements around it
\* (serve.go:94-99): on an error the handler returns without closing ws,
\* else it defers h.Close() and blocks in h.Wait().
NewHandler(c, newOk) ==
    /\ conns[c].pc = "upgraded"
    /\ conns' = [conns EXCEPT ![c] =
                    IF newOk
                    THEN [@ EXCEPT !.h = "ok", !.pc = "wait",
                                   !.deferred = <<"h.Close">>]
                    ELSE ExitHandler([@ EXCEPT !.h = "err"], "handlerFailed")]
    /\ UNCHANGED <<gatewayVars, signalVars, ctxDone, watcher, srv>>

\* Mutant: a session whose Wait returns an error closes the whole server.
WaitEnds_CloseOnError(c, how) ==
    /\ conns[c].pc = "wait"
    /\ conns' = [conns EXCEPT ![c] =
            IF how = "panic"
            THEN ConnServe(Unwind([ExitHandler(conns[c], how)
                                     EXCEPT !.panic = "propagating"]))
            ELSE ExitHandler(conns[c], how)]
    /\ srv' = IF how = "waitError" THEN "closed" ELSE srv
    /\ UNCHANGED <<gatewayVars, signalVars, ctxDone, watcher>>

\* h.Wait() returns (serve.go:102-106), or panics; either way the handler
\* function exits and its deferred call runs.  A panic is then caught by the
\* Recover middleware, or else by net/http's per-connection recovery.
WaitEnds(c, how) ==
    /\ conns[c].pc = "wait"
    /\ conns' = [conns EXCEPT ![c] =
            IF how = "panic"
            THEN ConnServe(Unwind([ExitHandler(conns[c], how)
                                     EXCEPT !.panic = "propagating"]))
            ELSE ExitHandler(conns[c], how)]
    /\ UNCHANGED <<gatewayVars, signalVars, ctxDone, watcher, srv>>

WaitOutcomes == {"finished", "waitError", "panic"}

----------------------------------------------------------------------------

Next ==
    \/ OpenNetwork
    \/ Listen
    \/ Hostname
    \/ RegisterWatcher
    \/ StartServe
    \/ AcceptFails
    \/ \E e \in {"sentinel", "fatal"} : ServeReturns(e)
    \/ ServeExit
    \/ SignalArrives
    \/ WatcherReceive
    \/ WatcherClose
    \/ WatcherCloseConns
    \/ \E c \in ConnIds : Accept(c)
    \/ \E c \in ConnIds : ConnClosed(c)
    \/ \E c \in ConnIds, r \in Requests, io \in IOs : ServeHTTP(c, r, io)
    \/ \E c \in ConnIds, ok \in BOOLEAN : NewHandler(c, ok)
    \/ \E c \in ConnIds, how \in WaitOutcomes : WaitEnds(c, how)

Spec == Init /\ [][Next]_vars

TypeOK ==
    /\ pc \in {"start", "listen", "hostname", "notify", "preServe", "serving",
               "acceptFailed", "served", "returned"}
    /\ netState \in {"none", "open", "closed"}
    /\ lisState \in {"none", "open", "closed"}
    /\ result \in {"none", "nil", "err"}
    /\ sig \in 0..1
    /\ watcher \in {"none", "blocked", "closing", "waiting", "done"}
    /\ srv \in {"new", "serving", "closed"}

----------------------------------------------------------------------------
(* Properties *)

Accepted(c) == conns[c].pc # "free"
IsShellWS(c) == Accepted(c) /\ conns[c].path = "/shell/ws"

\* The request read on connection c, and whether one was read.
ReqOf(c) ==
    Req(conns[c].path, conns[c].method, conns[c].origin, conns[c].acrm,
        conns[c].acrh, conns[c].hs, conns[c].panicAt)
HasRequest(c) == conns[c].path # ""

\* Connection c carries a complete WebSocket handshake.
GoodHandshake(c) == IsShellWS(c) /\ conns[c].method = "GET" /\ conns[c].hs = "ok"

\* C1: on every connection whose shell handler was created, h.Close has run
\* exactly once when the /shell/ws handler has exited (Wait returned nil,
\* returned an error, or panicked), and has not run before that.
C1_CloseExactlyOnce ==
    \A c \in ConnIds :
        conns[c].h = "ok" =>
            /\ conns[c].closes <= 1
            /\ conns[c].pc = "wait" => conns[c].closes = 0
            /\ conns[c].pc = "done" => conns[c].closes = 1

C1_Witness ==
    \E c, d \in ConnIds :
        /\ conns[c].h = "ok" /\ conns[c].outcome = "panic"
        /\ conns[c].closes = 1
        /\ conns[d].h = "ok" /\ conns[d].outcome \in {"finished", "waitError"}
        /\ conns[d].closes = 1

\* C2: whenever the /shell/ws handler has returned after a successful
\* upgrade, the upgraded stream has been released, also when NewHandler
\* failed.
C2_StreamReleasedOnExit ==
    \A c \in ConnIds :
        (conns[c].pc = "done" /\ conns[c].upgradeErr = "none"
            /\ conns[c].path = "/shell/ws") => conns[c].ws \notin {"open", "cut"}

\* C3 as stated: a /shell/ws request whose Origin header is present and not
\* a member of the allowed-origin set fails the upgrade, NewHandler is not
\* called for it, and the handler has only logged and returned.
C3_DisallowedOriginRejected ==
    \A c \in ConnIds :
        (IsShellWS(c) /\ conns[c].origin # ""
            /\ conns[c].origin \notin Range(allowedOrigins)) =>
            /\ conns[c].upgradeErr # "none"
            /\ conns[c].h = "none"
            /\ conns[c].ws = "none"
            /\ conns[c].closes = 0
            /\ conns[c].pc = "done"
            /\ conns[c].outcome = "upgradeFailed"

\* An origin equals a member of the allowed-origin set when letter case is
\* ignored.
MatchesIgnoringCase(origin) ==
    \E o \in Range(allowedOrigins) : ToLower(o) = ToLower(origin)

\* C3 amended: a /shell/ws request whose Origin header is present and equals
\* no member of the allowed-origin set, compared without regard to letter
\* case, fails the upgrade, NewHandler is not called for it, and the handler
\* has only logged and returned; an Origin that differs from a member in
\* letter case only is not refused by the origin check.
C3_UnmatchedOriginRejected ==
    \A c \in ConnIds :
        /\ (IsShellWS(c) /\ conns[c].origin # ""
                /\ ~MatchesIgnoringCase(conns[c].origin)) =>
                /\ conns[c].upgradeErr # "none"
                /\ conns[c].h = "none"
                /\ conns[c].ws = "none"
                /\ conns[c].closes = 0
                /\ conns[c].pc = "done"
                /\ conns[c].outcome = "upgradeFailed"
        /\ (IsShellWS(c) /\ MatchesIgnoringCase(conns[c].origin)) =>
                conns[c].upgradeErr # "origin"

C3_Witness ==
    \E c, d \in ConnIds :
        /\ GoodHandshake(c)
        /\ conns[c].origin = "http://evil.example"
        /\ conns[c].upgradeErr = "origin"
        /\ conns[c].outcome = "upgradeFailed"
        /\ GoodHandshake(d)
        /\ conns[d].origin \notin Range(allowedOrigins)
        /\ MatchesIgnoringCase(conns[d].origin)
        /\ conns[d].h = "ok"

\* C4: a request without an Origin header is rejected neither by the CORS
\* middleware nor by the upgrade handshake's origin check.
C4_AbsentOriginPasses ==
    \A c \in ConnIds :
        (HasRequest(c) /\ conns[c].origin = "") =>
            /\ CorsCallsNext(ReqOf(c))
            /\ conns[c].upgradeErr # "origin"

\* C5: once the policy is built, the allowed-origin set is exactly the bare
\* and port-qualified forms of the bound address, plus those of the hostname
\* when it is non-empty; with 100.64.0.1:80 and router.example a handshake
\* from http://router.example:80 is upgraded and one from http://evil.example
\* is refused.
C5_ExpectedAddr ==
    IF lisAddr = "100.64.0.1"
    THEN {"http://100.64.0.1", "http://100.64.0.1:80"}
    ELSE {"http://fd00::1", "http://[fd00::1]:80"}

C5_ExpectedHost ==
    IF hostname = "router.example"
    THEN {"http://router.example", "http://router.example:80"}
    ELSE IF hostname = "Router.Example"
    THEN {"http://Router.Example", "http://Router.Example:80"}
    ELSE {}

C5_AllowedOriginSet ==
    calls.host = "ok" =>
        /\ Range(allowedOrigins) = C5_ExpectedAddr \cup C5_ExpectedHost
        /\ Len(allowedOrigins) = IF hostname = "" THEN 2 ELSE 4
        /\ (lisAddr = "100.64.0.1" /\ hostname = "router.example") =>
             \A c \in ConnIds :
                GoodHandshake(c) =>
                    /\ conns[c].origin = "http://router.example:80"
                         => conns[c].upgradeErr \in {"none", "hijack", "write"}
                    /\ conns[c].origin = "http://evil.example"
                         => conns[c].upgradeErr = "origin"

C5_Witness ==
    /\ calls.host = "ok"
    /\ lisAddr = "100.64.0.1"
    /\ hostname = "router.example"
    /\ \E c, d \in ConnIds :
        /\ conns[c].origin = "http://router.example:80"
        /\ GoodHandshake(c) /\ conns[c].ws # "none"
        /\ conns[d].origin = "http://evil.example"
        /\ GoodHandshake(d) /\ conns[d].upgradeErr = "origin"

\* C6 as stated: when Hostname() fails or returns "", the origin policy is
\* still built and Serve does not abort because of the hostname.
C6_HostnameFailureTolerated ==
    (calls.host = "err" \/ (calls.host = "ok" /\ hostname = "")) =>
        /\ errMsg # "failed to get hostname"
        /\ Len(allowedOrigins) = 2
        /\ pc = "returned" => calls.serve # "none"

\* C6 amended: when Hostname() returns "" without an error, the policy is
\* built from the address-derived origins only and Serve goes on to serve;
\* when Hostname() returns an error, Serve aborts with the wrapped error
\* "failed to get hostname" and never serves.
C6_EmptyHostnameTolerated ==
    /\ (calls.host = "ok" /\ hostname = "") =>
        /\ Range(allowedOrigins) = C5_ExpectedAddr
        /\ errMsg # "failed to get hostname"
        /\ pc \in {"notify", "preServe", "serving", "acceptFailed", "served",
                  "returned"}
        /\ pc = "returned" => calls.serve # "none"
    /\ calls.host = "err" =>
        /\ pc = "returned" /\ result = "err"
        /\ errMsg = "failed to get hostname"
        /\ calls.serve = "none" /\ srv = "new" /\ watcher = "none"
        /\ \A c \in ConnIds : ~Accepted(c)

C6_Witness ==
    /\ calls.host = "ok" /\ hostname = ""
    /\ pc = "serving"
    /\ \E c \in ConnIds : conns[c].outcome = "static" /\ conns[c].status = "200"

\* A termination signal has been delivered to the registered watcher: it is
\* buffered in the channel, or the watcher has taken one.
Signalled == sig = 1 \/ watcher \in {"closing", "waiting", "done"}

\* C7: whenever a signal has been delivered and the gateway is serving, the
\* watcher closes the server and the blocking srv.Serve call ends with the
\* server-closed sentinel, which Serve returns as nil: the serve loop never
\* ends, after a signal, with an error that Serve returns.
C7_SignalMeansNil ==
    [][(Signalled /\ pc \in {"serving", "acceptFailed"} /\ pc' = "served") =>
            /\ calls'.serve = "sentinel"
            /\ ServeResult(calls'.serve)[1] = "nil"]_vars

\* C8: Serve returns a non-nil error exactly when opening the network,
\* binding the listener or the hostname lookup failed, or srv.Serve ended
\* with an error other than the sentinel; failures inside connection
\* handlers never change the result.
C8_ErrorIffStartupOrFatal ==
    pc = "returned" =>
        /\ result \in {"nil", "err"}
        /\ result = "err" <=>
              \/ calls.open = "err"
              \/ calls.listen = "err"
              \/ calls.host = "err"
              \/ calls.serve = "fatal"

C8_Witness ==
    /\ pc = "returned" /\ result = "nil"
    /\ \E c, d \in ConnIds :
        /\ conns[c].outcome = "panic"
        /\ conns[d].outcome \in {"upgradeFailed", "handlerFailed", "waitError"}

\* C9: the shutdown does not cut the stream of a session that is still in
\* flight (blocked in Wait), also not through the deferred release of the
\* listener and the network when Serve returns, and a session that has
\* ended went through its own Wait-then-Close path.
C9_InFlightSessionsUntouched ==
    \A c \in ConnIds :
        /\ conns[c].pc = "wait" => conns[c].ws # "cut"
        /\ (conns[c].pc = "done" /\ conns[c].h = "ok") => conns[c].closes = 1

\* C10: when Serve has returned, the network is closed if it was opened and
\* the listener is closed if it was bound.
C10_ReleasedOnReturn ==
    pc = "returned" =>
        /\ calls.open = "ok" => netState = "closed"
        /\ calls.listen = "ok" => lisState = "closed"
        /\ defers = << >>

C10_Witness ==
    /\ pc = "returned"
    /\ calls.serve = "fatal"
    /\ netState = "closed" /\ lisState = "closed"

\* C11: when opening the network, binding the listener or the hostname
\* lookup has failed, Serve has returned the matching wrapped error and
\* nothing later happened: no watcher was registered, the server never
\* served, and no request was accepted.
C11_StartupFailureAborts ==
    (calls.open = "err" \/ calls.listen = "err" \/ calls.host = "err") =>
        /\ pc = "returned" /\ result = "err"
        /\ calls.open = "err" => errMsg = "failed to open WireGuard network"
        /\ calls.listen = "err" => errMsg = "failed to listen"
        /\ calls.host = "err" => errMsg = "failed to get hostname"
        /\ watcher = "none" /\ sig = 0
        /\ srv = "new" /\ calls.serve = "none"
        /\ \A c \in ConnIds : ~Accepted(c)

C11_Witness ==
    /\ calls.open = "ok" /\ calls.listen = "ok" /\ calls.host = "err"
    /\ pc = "returned" /\ result = "err"
    /\ netState = "closed" /\ lisState = "closed"

\* C12: while the server is serving, a new connection can be accepted
\* whatever number of handlers are blocked in Wait; an accepted connection
\* can have its request served, a complete handshake from an allowed origin
\* on a working connection is upgraded, and an upgraded connection can get
\* its session, none of which waits for another connection.
FreeConns == {c \in ConnIds : conns[c].pc = "free"}

C12_AcceptNeverBlocked ==
    /\ (pc = "serving" /\ srv = "serving" /\ FreeConns # {}) =>
            ENABLED (\E c \in ConnIds : Accept(c))
    /\ \A c \in ConnIds :
        /\ (conns[c].pc = "accepted" /\ ~conns[c].cut) =>
              \A r \in Requests :
                /\ ENABLED ServeHTTP(c, r, "ok")
                /\ (r.hs = "ok" /\ r.method = "GET" /\ r.panicAt = "none"
                        /\ r.path = "/shell/ws" /\ OriginAllowed(r.origin))
                     => ChainFrom(1, r, "ok", {}).pc = "upgraded"
        /\ conns[c].pc = "upgraded" => ENABLED NewHandler(c, TRUE)

C12_Witness ==
    /\ pc = "serving" /\ srv = "serving"
    /\ \E c \in ConnIds :
        /\ conns[c].pc = "upgraded"
        /\ \A d \in ConnIds \ {c} : conns[d].pc = "wait"

\* C13: a step in which one connection ends with an upgrade error, a
\* NewHandler error or a Wait error changes nothing but that connection:
\* every other connection, the server, the watcher and Serve itself stay as
\* they were.
SessionFails(c) ==
    /\ conns[c].pc # "done"
    /\ conns'[c].pc = "done"
    /\ conns'[c].outcome \in {"upgradeFailed", "handlerFailed", "waitError"}

C13_SessionFailureIsolated ==
    [][\A c \in ConnIds :
          SessionFails(c) =>
              /\ \A d \in ConnIds \ {c} : conns'[d] = conns[d]
              /\ UNCHANGED <<gatewayVars, signalVars, ctxDone, watcher, srv>>
      ]_vars

C13_Witness ==
    /\ pc = "serving" /\ srv = "serving"
    /\ \E c, d \in ConnIds :
        /\ conns[c].outcome = "waitError"
        /\ conns[d].pc = "wait"

\* C14: every panic inside Recover, also one after the connection was
\* upgraded, ends caught by Recover and answered with a failure response.
C14_PanicBecomesFailureResponse ==
    \A c \in ConnIds :
        conns[c].outcome = "panic" =>
            /\ conns[c].panic = "recovered"
            /\ conns[c].status = "500"

\* C15: every response the gateway produces carries X-Frame-Options and
\* Content-Security-Policy, whichever inner handler ran (a static asset, the
\* upgrade endpoint, or a handler that panicked).
SecurityHeaders == {"X-Frame-Options", "Content-Security-Policy"}

C15_EveryResponseHasHeaders ==
    \A c \in ConnIds :
        conns[c].status # "none" => SecurityHeaders \subseteq conns[c].sent

\* The lifecycle state of spec section 4.6 that the gateway is in.  Failed
\* lasts from the fatal Accept error inside srv.Serve to the return of
\* Serve.
Phase ==
    IF pc = "returned" THEN "Closed"
    ELSE IF pc \in {"start", "listen", "hostname"} THEN "Initializing"
    ELSE IF pc = "acceptFailed" \/ (pc = "served" /\ calls.serve = "fatal")
         THEN "Failed"
    ELSE IF srv = "closed" THEN "ShuttingDown"
    ELSE IF pc = "serving" THEN "Serving"
    ELSE "Listening"

PhasePrime ==
    IF pc' = "returned" THEN "Closed"
    ELSE IF pc' \in {"start", "listen", "hostname"} THEN "Initializing"
    ELSE IF pc' = "acceptFailed" \/ (pc' = "served" /\ calls'.serve = "fatal")
         THEN "Failed"
    ELSE IF srv' = "closed" THEN "ShuttingDown"
    ELSE IF pc' = "serving" THEN "Serving"
    ELSE "Listening"

\* The steps of Initializing -> Listening -> Serving -> (ShuttingDown |
\* Failed) -> Closed; a startup failure leaves Initializing for Closed.
LifecycleStep ==
    \/ PhasePrime = Phase
    \/ Phase = "Initializing" /\ PhasePrime = "Listening"
    \/ Phase = "Initializing" /\ PhasePrime = "Closed" /\ result' = "err"
    \/ Phase = "Listening" /\ PhasePrime = "Serving"
    \/ Phase = "Serving" /\ PhasePrime = "ShuttingDown"
    \/ Phase = "Serving" /\ PhasePrime = "Failed"
    \/ Phase = "Failed" /\ PhasePrime = "Closed" /\ result' = "err"
    \/ Phase = "ShuttingDown" /\ PhasePrime = "Closed"

\* C16 as stated: the gateway only ever takes the steps of the lifecycle;
\* in particular ShuttingDown is entered from Serving only.
C16_LifecycleOrder == [][LifecycleStep]_vars

\* C16 amended: the gateway follows Initializing -> Listening -> Serving ->
\* (ShuttingDown | Failed) -> Closed, except that ShuttingDown is entered
\* straight from Listening when the watcher closes the server before the
\* serve loop has started, and Serving is then skipped; no state is
\* revisited, Serving is never entered after ShuttingDown, and a run that
\* reached Listening is Closed only after srv.Serve returned the sentinel
\* (ShuttingDown) or a fatal error (Failed).
C16_LifecycleOrderOrEarlyShutdown ==
    /\ [][LifecycleStep
            \/ (Phase = "Listening" /\ PhasePrime = "ShuttingDown")]_vars
    /\ []((pc = "returned" /\ calls.host = "ok") =>
            calls.serve \in {"sentinel", "fatal"})

C16_Witness ==
    /\ pc = "preServe"
    /\ srv = "closed" /\ watcher = "done"
    /\ Phase = "ShuttingDown"

\* C17 as stated: once the watcher has received a termination signal and
\* finished its work, the context handed to the session handlers
\* (serve.go:94) is cancelled, so every session still running observes it.
C17_SignalCancelsSessionContext ==
    (watcher = "done" /\ \E c \in 1..MaxConns : conns[c].pc = "wait") =>
        ctxDone

\* The request of connection c got past the CORS layer to the router.
RouterRan(c) ==
    conns[c].outcome \notin {"none", "preflight", "dropped"}
        \/ conns[c].pc \in {"upgraded", "wait"}

\* C18: the CORS middleware enforces the origin check of the upgrader on
\* every path: a request with a present Origin that the upgrader's check
\* refuses is rejected by the middleware on a plain HTTP path too, so it
\* never reaches the router.
C18_MiddlewareIsOriginCheck ==
    \A c \in ConnIds :
        (/\ HasRequest(c) /\ conns[c].panicAt = "none"
         /\ ~IsShellWS(c)
         /\ conns[c].origin # "" /\ ~OriginAllowed(conns[c].origin))
            => ~RouterRan(c)

\* C19 as stated: in every state in which Serve has returned after the
\* watcher was started, the signal-watcher goroutine has terminated and no
\* connection goroutine or session handler is still running.
C19_NothingOutlivesServe ==
    (pc = "returned" /\ calls.serve # "none") =>
        /\ watcher = "done"
        /\ \A c \in ConnIds : conns[c].pc \notin {"accepted", "upgraded", "wait"}

\* C20: a signal delivered at any point after the watcher is registered
\* makes Serve return nil; and when the watcher has closed the server before
\* the serve loop started, srv.Serve ends with the sentinel at once and no
\* connection is accepted.
C20_SignalAlwaysMeansNil ==
    /\ [][(Signalled /\ pc # "returned" /\ pc' = "returned")
              => result' = "nil"]_vars
    /\ [][(pc = "preServe" /\ srv = "closed" /\ pc' # pc) =>
              /\ calls'.serve = "sentinel"
              /\ \A c \in ConnIds : conns'[c].pc = "free"]_vars

====
